---- MODULE Spec2Model ----
(***************************************************************************)
(* Model of Annotations_from_Tabbles.py: the normaliser split_data and the *)
(* reconciliation annotateObject, run against one image of an OMERO store  *)
(* (Spec, and SpecFail on a server that refuses deletes), and the loop of  *)
(* tabbles_annotation over the images of one run (SpecRun).                *)
(*                                                                         *)
(* Strings are sequences of one-character strings, so that startswith,     *)
(* the regular expression of transformToMaprNamespace and the substring    *)
(* test are computed.  A Python dict is an association list: a sequence of *)
(* <<key, value>> entries with distinct keys, in insertion order.          *)
(***************************************************************************)
EXTENDS Integers, Sequences, FiniteSets, TLC

\* ------------------------------------------------------------------ bounds
MaxCalls == 2       \* annotateObject calls made on the image in one behaviour
MaxRows == 2        \* rows of the Tabbles query result behind one data_dict
MaxInitPairs == 2   \* key/value pairs of a MapAnnotation present at the start
MaxInitObjects == 1 \* annotations (MapAnnotations of the image and
                    \* TagAnnotations of the server) present at the start
MaxImages == 3      \* images that getImages returns for one run of the script

\* ----------------------------------------------------------------- strings
\* omero.constants.metadata.NSCLIENTMAPANNOTATION, abbreviated
DEFAULT_NAMESPACE == <<"o", "m", "/", "m", "a", "p">>

UpperCase == {"B", "O"}
LowerCase == {"a", "b", "g", "i", "k", "l", "m", "o", "p", "r", "s", "t", "v", "w", "x"}

\* str.lower on one character
LowerChar(c) == CASE c = "B" -> "b" [] c = "O" -> "o" [] OTHER -> c

\* str.lower
Lower(s) == [i \in 1..Len(s) |-> LowerChar(s[i])]

\* the character class [a-zA-Z\s]
IsLetterOrSpace(c) == c \in UpperCase \cup LowerCase \cup {" "}

\* str.startswith("_")
StartsWithMarker(s) == Len(s) > 0 /\ s[1] = "_"

\* Python's `a in b` on strings
IsSubstring(a, b) ==
    \E i \in 0..(Len(b) - Len(a)) : SubSeq(b, i + 1, i + Len(a)) = a

\* Python's `x in list`
InList(x, list) == \E i \in 1..Len(list) : list[i] = x

\* positions at which re.search(r"[a-zA-Z\s]{3,}", s) can start a match
MatchStarts(s) ==
    {i \in 1..(Len(s) - 2) : \A j \in i..(i + 2) : IsLetterOrSpace(s[j])}

\* re.search(r"[a-zA-Z\s]{3,}", s) finds something
HasLetterRun(s) == MatchStarts(s) # {}

\* re.search(r"[a-zA-Z\s]{3,}", s).group(): leftmost match, greedy
LetterRun(s) ==
    LET i0 == CHOOSE i \in MatchStarts(s) : \A j \in MatchStarts(s) : i <= j
        e0 == CHOOSE e \in i0..Len(s) :
                  /\ \A j \in i0..e : IsLetterOrSpace(s[j])
                  /\ (e = Len(s) \/ ~IsLetterOrSpace(s[e + 1]))
    IN  SubSeq(s, i0, e0)

\* ------------------------------------------------------------ Python dicts
\* `k in d`
Has(d, k) == \E i \in 1..Len(d) : d[i][1] = k

\* `d[k]`
Get(d, k) == d[CHOOSE i \in 1..Len(d) : d[i][1] = k][2]

\* `d[k] = v`
Put(d, k, v) ==
    IF Has(d, k)
    THEN [i \in 1..Len(d) |-> IF d[i][1] = k THEN <<k, v>> ELSE d[i]]
    ELSE Append(d, <<k, v>>)

\* `d.keys()` as a set
Keys(d) == {d[i][1] : i \in 1..Len(d)}

\* the [key, value] pairs of a dict key -> list of values, as the loops
\* `for key, values in d.items(): for value in values:` visit them
RECURSIVE PairsOf(_)
PairsOf(key_values) ==
    IF key_values = <<>> THEN <<>>
    ELSE LET key == key_values[1][1]
             values == key_values[1][2]
         IN  [i \in 1..Len(values) |-> <<key, values[i]>>] \o PairsOf(Tail(key_values))

\* the set of elements of a sequence
Range(s) == {s[i] : i \in 1..Len(s)}

\* ------------------------------------------------- the Tabbles hierarchy
\* A namespace of data_dict is None or a string: None is <<>>, "s" is <<s>>.
None == <<>>

Some(s) == <<s>>

\* getData: the dict namespace -> key -> list of values built from the rows
\* <<namespace, key, value>> of the query result
RECURSIVE tabbles_data(_, _)
tabbles_data(acc, rows) ==
    IF rows = <<>> THEN acc
    ELSE LET namespace == rows[1][1]
             key == rows[1][2]
             value == rows[1][3]
             d1 == IF Has(acc, namespace) THEN acc ELSE Put(acc, namespace, <<>>)
             kv1 == IF Has(Get(d1, namespace), key) THEN Get(d1, namespace)
                    ELSE Put(Get(d1, namespace), key, <<>>)
             kv2 == Put(kv1, key, Append(Get(kv1, key), value))
         IN  tabbles_data(Put(d1, namespace, kv2), Tail(rows))

\* ---------------------------------------------------- namespace resolver
\* the loop of transformToMaprNamespace: result is overwritten by every
\* matching namespace of the list, there is no break
RECURSIVE MatchLoop(_, _, _)
MatchLoop(result, only_letters_ns, mapr_ns_list) ==
    IF mapr_ns_list = <<>> THEN result
    ELSE LET namespace == mapr_ns_list[1]
         IN  MatchLoop(IF IsSubstring(Lower(only_letters_ns), Lower(namespace))
                       THEN namespace ELSE result,
                       only_letters_ns, Tail(mapr_ns_list))

\* transformToMaprNamespace raises AttributeError: re.search returned None
\* and .group() is called on it
transformRaises(orig_ns) == ~HasLetterRun(orig_ns)

transformToMaprNamespace(orig_ns, mapr_ns_list) ==
    MatchLoop(<<>>, LetterRun(orig_ns), mapr_ns_list)

\* ------------------------------------------------------------- split_data
\* lines 356-361: the values under the keys starting with "_"
RECURSIVE TagsOf(_)
TagsOf(key_values) ==
    IF key_values = <<>> THEN <<>>
    ELSE (IF StartsWithMarker(key_values[1][1]) THEN key_values[1][2] ELSE <<>>)
         \o TagsOf(Tail(key_values))

\* lines 368-375: append the pairs that are not in the list yet
RECURSIVE AddPairs(_, _)
AddPairs(list, pairs) ==
    IF pairs = <<>> THEN list
    ELSE AddPairs(IF InList(pairs[1], list) THEN list ELSE Append(list, pairs[1]),
                  Tail(pairs))

\* lines 389-391 (and 542-544): append the values that are not in the list yet
RECURSIVE AddValues(_, _)
AddValues(list, values) ==
    IF values = <<>> THEN list
    ELSE AddValues(IF InList(values[1], list) THEN list ELSE Append(list, values[1]),
                   Tail(values))

\* lines 386-391 (and 539-544): merge key_values into the dict key -> values
RECURSIVE MergeKeyValues(_, _)
MergeKeyValues(kv, key_values) ==
    IF key_values = <<>> THEN kv
    ELSE LET key == key_values[1][1]
             values == key_values[1][2]
             kv1 == IF Has(kv, key) THEN kv ELSE Put(kv, key, <<>>)
         IN  MergeKeyValues(Put(kv1, key, AddValues(Get(kv1, key), values)),
                            Tail(key_values))

\* line 355 without the test of the namespace
TagBranchAnyNamespace(Process_single_tags, namespace) == Process_single_tags

\* line 355: the branch that produces tags
TagBranch(Process_single_tags, namespace) == Process_single_tags /\ namespace = None

\* line 366: the branch that fills new_KVpairs_list
FlatBranch(mapr_ns_list) == Len(mapr_ns_list) = 0

\* line 377 with >= for >: the dict is filled whatever the config says
DictBranchAlways(mapr_ns_list) == Len(mapr_ns_list) >= 0

\* line 377: the branch that fills new_KVpairs_dict
DictBranch(mapr_ns_list) == Len(mapr_ns_list) > 0

\* lines 380-382: the namespace the pairs are filed under
ResolveNamespace(namespace, mapr_ns_list) ==
    IF StartsWithMarker(namespace) THEN DEFAULT_NAMESPACE
    ELSE transformToMaprNamespace(namespace, mapr_ns_list)

\* one iteration of the loop of line 352 on the three outputs
SplitStep(out, Process_single_tags, mapr_ns_list, namespace, key_values) ==
    LET o1 == IF TagBranch(Process_single_tags, namespace)
              THEN [out EXCEPT !.new_tags = @ \o TagsOf(key_values)]
              ELSE out
        o2 == IF namespace # None /\ FlatBranch(mapr_ns_list)
              THEN [o1 EXCEPT !.new_KVpairs_list = AddPairs(@, PairsOf(key_values))]
              ELSE o1
        ns == ResolveNamespace(namespace[1], mapr_ns_list)
        d1 == IF Has(o2.new_KVpairs_dict, ns) THEN o2.new_KVpairs_dict
              ELSE Put(o2.new_KVpairs_dict, ns, <<>>)
        o3 == IF namespace # None /\ DictBranch(mapr_ns_list)
              THEN [o2 EXCEPT !.new_KVpairs_dict =
                                   Put(d1, ns, MergeKeyValues(Get(d1, ns), key_values))]
              ELSE o2
    IN  o3

RECURSIVE SplitLoop(_, _, _, _)
SplitLoop(out, Process_single_tags, mapr_ns_list, data_dict) ==
    IF data_dict = <<>> THEN out
    ELSE SplitLoop(SplitStep(out, Process_single_tags, mapr_ns_list,
                             data_dict[1][1], data_dict[1][2]),
                   Process_single_tags, mapr_ns_list, Tail(data_dict))

\* split_data raises: the assert of line 370 (a key starting with "_" under
\* a namespace, no OMERO.mapr), or the AttributeError of line 197
split_raises(mapr_ns_list, data_dict) ==
    \E i \in 1..Len(data_dict) :
        LET namespace == data_dict[i][1]
            key_values == data_dict[i][2]
        IN  /\ namespace # None
            /\ \/ /\ FlatBranch(mapr_ns_list)
                  /\ \E k \in Keys(key_values) : StartsWithMarker(k)
               \/ /\ DictBranch(mapr_ns_list)
                  /\ ~StartsWithMarker(namespace[1])
                  /\ transformRaises(namespace[1])

split_data(Process_single_tags, mapr_ns_list, data_dict) ==
    SplitLoop([new_tags |-> <<>>, new_KVpairs_list |-> <<>>, new_KVpairs_dict |-> <<>>],
              Process_single_tags, mapr_ns_list, data_dict)

\* -------------------------------------------------------------- the store
\* What the server holds for the image, as a record s:
\*   s.mapAnns   the MapAnnotations linked to the image, in the order of
\*               image.listAnnotations(): [ns, value = list of <<key, value>>]
\*   s.tags      the text of every TagAnnotation of the server; the index is the id
\*   s.tagLinks  the ids of the TagAnnotations linked to the image, one per link
\*   s.log       the calls made on the server, in order, as <<op, argument>>
\*   s.fault     "" when the server carries out the deletes; else what a
\*               Delete2 that the server does not carry out raises:
\*               "ServerError" (sf.submit raises an omero.ServerError, which
\*               has the attribute message) or "CmdError" (waitOnCmd raises
\*               omero.CmdError, a Python exception without it)
\*   s.exception "" or the exception that a call raised and no handler
\*               caught: the calls after it in the code are not made
Faults == {"ServerError", "CmdError"}

\* a call that is reached only when no exception is on its way out
Call(s, done) == IF s.exception # "" THEN s ELSE done

Logged(s, op, arg) == Call(s, [s EXCEPT !.log = Append(@, <<op, arg>>)])

\* lines 34-40: file the pairs of one annotation under its namespace
RECURSIVE FilePairs(_, _)
FilePairs(kv, key_values) ==
    IF key_values = <<>> THEN kv
    ELSE LET key == key_values[1][1]
             value == key_values[1][2]
             kv1 == IF Has(kv, key) THEN kv ELSE Put(kv, key, <<>>)
         IN  FilePairs(Put(kv1, key, Append(Get(kv1, key), value)), Tail(key_values))

RECURSIVE ExistingLoop(_, _)
ExistingLoop(existing, annotations) ==
    IF annotations = <<>> THEN existing
    ELSE LET namespace == annotations[1].ns
             e1 == IF Has(existing, namespace) THEN existing
                   ELSE Put(existing, namespace, <<>>)
         IN  ExistingLoop(Put(e1, namespace,
                              FilePairs(Get(e1, namespace), annotations[1].value)),
                          Tail(annotations))

\* get_existing_map_annotations: namespace -> key -> list of values
get_existing_map_annotations(s) == ExistingLoop(<<>>, s.mapAnns)

\* get_tag_dict: name -> id, the first TagAnnotation of a name wins
RECURSIVE TagDictLoop(_, _, _)
TagDictLoop(tag_dict, taglist, i) ==
    IF i > Len(taglist) THEN tag_dict
    ELSE TagDictLoop(IF Has(tag_dict, taglist[i]) THEN tag_dict
                     ELSE Put(tag_dict, taglist[i], i),
                     taglist, i + 1)

get_tag_dict(s) == TagDictLoop(<<>>, s.tags, 1)

\* get_linked_tag_annotations: the names of the linked tags, one per link
get_linked_tag_annotations(s) == [i \in 1..Len(s.tagLinks) |-> s.tags[s.tagLinks[i]]]

\* line 100 with the default namespace for the parameter
KeptAnnotationsNotDefault(annotations, namespace) ==
    SelectSeq(annotations, LAMBDA ann : ann.ns # DEFAULT_NAMESPACE)

\* the annotations that line 99-100 does not select
KeptAnnotations(annotations, namespace) ==
    SelectSeq(annotations, LAMBDA ann : ann.ns # namespace)

\* lines 107-109: the handler reads ex.message, which raises AttributeError
\* when the exception has no such attribute
HandlerRaises(fault) == fault = "CmdError"

\* remove_map_annotations: Delete2 of the MapAnnotations of the namespace;
\* when the server does not carry it out nothing is deleted, and the handler
\* of line 107 prints or raises
remove_map_annotations(s, namespace) ==
    LET s1 == Logged(s, "list", <<>>)
        mapann_ids == SelectSeq(s.mapAnns, LAMBDA ann : ann.ns = namespace)
        s2 == Logged(Logged(s1, "delete", namespace), "failed", namespace)
    IN  Call(s, IF s.fault = "" \/ mapann_ids = <<>>
                THEN Logged([s1 EXCEPT !.mapAnns = KeptAnnotations(@, namespace)],
                            "delete", namespace)
                ELSE IF HandlerRaises(s.fault)
                     THEN [s2 EXCEPT !.exception = "AttributeError"]
                     ELSE Logged(s2, "print", namespace))

\* line 137 finding no link: none is deleted or counted
remove_tag_annotations_none(s) ==
    [s |-> Logged(Logged(s, "list", <<>>), "unlink", <<>>), number_of_deleted_tags |-> 0]

\* remove_tag_annotations: every link of a tag to the image is deleted and
\* counted; conn.deleteObject of line 139 is in no try block, so when the
\* server does not delete the first link its exception leaves the function
remove_tag_annotations(s) ==
    IF s.fault = "" \/ s.tagLinks = <<>>
    THEN [s |-> Logged([Logged(s, "list", <<>>) EXCEPT !.tagLinks = <<>>], "unlink", <<>>),
          number_of_deleted_tags |-> Len(s.tagLinks)]
    ELSE [s |-> [Logged(Logged(Logged(s, "list", <<>>), "unlink", <<>>), "failed", <<>>)
                     EXCEPT !.exception = "ServerError"],
          number_of_deleted_tags |-> 0]

\* MapAnnotationWrapper: setNs, setValue, save, image.linkAnnotation
write_map_annotation(s, namespace, kv_list) ==
    Call(s, Logged([s EXCEPT !.mapAnns = Append(@, [ns |-> namespace, value |-> kv_list])],
                   "write", namespace))

\* TagAnnotationWrapper: setValue, save, image.linkAnnotation
create_tag(s, name) ==
    Call(s, Logged([s EXCEPT !.tags = Append(@, name),
                             !.tagLinks = Append(@, Len(s.tags) + 1)],
                   "create", name))

\* conn.getObject("TagAnnotation", id), image.linkAnnotation
link_tag(s, id) ==
    Call(s, Logged([s EXCEPT !.tagLinks = Append(@, id)], "link", s.tags[id]))

\* --------------------------------------------------------- annotateObject
\* The sections of annotateObject work on a record r:
\*   r.s                the store
\*   r.counter_map_ann  r.counter_tag_ann   the two counters
\*   r.raised           "" or the exception that ended the call
Raise(r, exception) == [r EXCEPT !.raised = exception]

\* an exception that a call on the server raised ends annotateObject: the
\* sections after it are not run
Propagate(r) == IF r.s.exception = "" THEN r ELSE Raise(r, r.s.exception)

\* the call is left: with its counts, or with the exception
Left(r) == [Propagate(r) EXCEPT !.s.exception = ""]

\* lines 433-448: create or fetch each new tag, link it, count it
RECURSIVE OverwriteTagLoop(_, _)
OverwriteTagLoop(st, new_tags) ==
    IF new_tags = <<>> THEN st
    ELSE LET tag_value == new_tags[1]
         IN  OverwriteTagLoop(
                 IF ~Has(st.tag_dict, tag_value)
                 THEN [s |-> create_tag(st.s, tag_value),
                       tag_dict |-> Put(st.tag_dict, tag_value, Len(st.s.tags) + 1),
                       counter |-> st.counter + 1]
                 ELSE [s |-> link_tag(st.s, Get(st.tag_dict, tag_value)),
                       tag_dict |-> st.tag_dict,
                       counter |-> st.counter + 1],
                 Tail(new_tags))

\* lines 429-449: Overwrite, tags
OverwriteTags(r, new_tags) ==
    IF Len(new_tags) > 0
    THEN LET removed == remove_tag_annotations(r.s)
             s1 == Logged(removed.s, "tagdict", <<>>)
             done == OverwriteTagLoop([s |-> s1, tag_dict |-> get_tag_dict(s1),
                                       counter |-> 0], new_tags)
         IN  [r EXCEPT !.s = done.s,
                       !.counter_tag_ann = done.counter - removed.number_of_deleted_tags]
    ELSE r

\* line 466: the list that Overwrite stores under the default namespace
CombinedList(new_KVpairs_list, existing_map_annotations_lists) ==
    new_KVpairs_list \o existing_map_annotations_lists

\* line 475: what Overwrite without OMERO.mapr adds to counter_map_ann
FlatOverwriteCount(new_KVpairs_list) == Len(new_KVpairs_list)

\* lines 453-475: Overwrite, key/value pairs without OMERO.mapr
OverwriteFlat(r, mapr_ns_list, new_KVpairs_list) ==
    IF Len(new_KVpairs_list) > 0 /\ r.raised = ""
    THEN IF Len(mapr_ns_list) # 0 THEN Raise(r, "AssertionError")
         ELSE LET namespace == DEFAULT_NAMESPACE
                  existing_map_annotations == get_existing_map_annotations(r.s)
                  s1 == Logged(r.s, "list", <<>>)
                  existing_map_annotations_lists ==
                      IF Len(existing_map_annotations) > 0
                         /\ Has(existing_map_annotations, namespace)
                      THEN PairsOf(Get(existing_map_annotations, namespace))
                      ELSE <<>>
                  combined_KV_list ==
                      CombinedList(new_KVpairs_list, existing_map_annotations_lists)
                  s2 == remove_map_annotations(s1, namespace)
                  s3 == write_map_annotation(s2, namespace, combined_KV_list)
              IN  [r EXCEPT !.s = s3,
                            !.counter_map_ann =
                                @ + FlatOverwriteCount(new_KVpairs_list)]
    ELSE r

\* line 488: an existing namespace that Overwrite removes as no longer present
IsStale(namespace, mapr_namespaces, new_KVpairs_dict) ==
    InList(namespace, mapr_namespaces) /\ ~Has(new_KVpairs_dict, namespace)

\* lines 489 and 494: what one removed namespace adds to `deleted`
DeletedPerNamespace(existing_key_values) == Len(existing_key_values)

\* lines 487-490: remove the namespaces that do not show up in the new data
RECURSIVE StaleLoop(_, _, _, _)
StaleLoop(st, entries, mapr_namespaces, new_KVpairs_dict) ==
    IF entries = <<>> THEN st
    ELSE LET namespace == entries[1][1]
         IN  StaleLoop(
                 IF IsStale(namespace, mapr_namespaces, new_KVpairs_dict)
                 THEN [st EXCEPT !.deleted = @ + DeletedPerNamespace(entries[1][2]),
                                 !.s = remove_map_annotations(@, namespace)]
                 ELSE st,
                 Tail(entries), mapr_namespaces, new_KVpairs_dict)

\* line 505: what one written namespace adds to `added`
AddedPerNamespace(new_KVpairs_dict) == Len(new_KVpairs_dict)

\* lines 492-505: replace the annotation of every namespace of the new data
RECURSIVE ReplaceLoop(_, _, _, _)
ReplaceLoop(st, entries, existing_map_annotations, new_KVpairs_dict) ==
    IF entries = <<>> THEN st
    ELSE LET namespace == entries[1][1]
             key_values == entries[1][2]
             deleted1 == IF Has(existing_map_annotations, namespace)
                         THEN st.deleted
                              + DeletedPerNamespace(Get(existing_map_annotations, namespace))
                         ELSE st.deleted
             s1 == remove_map_annotations(st.s, namespace)
             kv_list == PairsOf(key_values)
             s2 == write_map_annotation(s1, namespace, kv_list)
         IN  ReplaceLoop([s |-> s2, deleted |-> deleted1,
                          added |-> st.added + AddedPerNamespace(new_KVpairs_dict)],
                         Tail(entries), existing_map_annotations, new_KVpairs_dict)

\* line 478: the guard of the namespace-aware section of Overwrite
OverwriteMaprGuard(new_KVpairs_dict) == Len(new_KVpairs_dict) > 0

\* lines 478-506: Overwrite, key/value pairs with OMERO.mapr
OverwriteMapr(r, mapr_ns_list, new_KVpairs_dict) ==
    IF OverwriteMaprGuard(new_KVpairs_dict) /\ r.raised = ""
    THEN IF ~(Len(mapr_ns_list) > 0) THEN Raise(r, "AssertionError")
         ELSE LET existing_map_annotations == get_existing_map_annotations(r.s)
                  s1 == Logged(r.s, "list", <<>>)
                  st0 == [s |-> s1, deleted |-> 0, added |-> 0]
                  st1 == IF Len(existing_map_annotations) > 0
                         THEN StaleLoop(st0, existing_map_annotations, mapr_ns_list,
                                        new_KVpairs_dict)
                         ELSE st0
                  st2 == ReplaceLoop(st1, new_KVpairs_dict, existing_map_annotations,
                                     new_KVpairs_dict)
              IN  [r EXCEPT !.s = st2.s, !.counter_map_ann = st2.added - st2.deleted]
    ELSE r

\* line 516: Append links a new tag when its name is not among the linked ones
NeedsLink(tag, existing_tags) == ~InList(tag, existing_tags)

\* lines 515-527: link the tags that are not linked yet; existing_tags and
\* tag_dict are the ones read before the loop
RECURSIVE AppendTagLoop(_, _, _, _)
AppendTagLoop(st, new_tags, existing_tags, tag_dict) ==
    IF new_tags = <<>> THEN st
    ELSE LET tag == new_tags[1]
         IN  AppendTagLoop(
                 IF NeedsLink(tag, existing_tags)
                 THEN IF ~Has(tag_dict, tag)
                      THEN [s |-> create_tag(st.s, tag), counter |-> st.counter + 1]
                      ELSE [s |-> link_tag(st.s, Get(tag_dict, tag)),
                            counter |-> st.counter + 1]
                 ELSE st,
                 Tail(new_tags), existing_tags, tag_dict)

\* lines 512-527: Append, tags
AppendTags(r, new_tags) ==
    IF Len(new_tags) > 0
    THEN LET existing_tags == get_linked_tag_annotations(r.s)
             s1 == Logged(r.s, "list", <<>>)
             tag_dict == get_tag_dict(s1)
             s2 == Logged(s1, "tagdict", <<>>)
             done == AppendTagLoop([s |-> s2, counter |-> r.counter_tag_ann],
                                   new_tags, existing_tags, tag_dict)
         IN  [r EXCEPT !.s = done.s, !.counter_tag_ann = done.counter]
    ELSE r

\* the number of [key, value] pairs of a dict namespace -> key -> values
RECURSIVE CountPairs(_)
CountPairs(d) ==
    IF d = <<>> THEN 0 ELSE Len(PairsOf(d[1][2])) + CountPairs(Tail(d))

\* lines 536-545: merge the new data into the existing pairs
RECURSIVE MergeLoop(_, _)
MergeLoop(existing_kvPairs, entries) ==
    IF entries = <<>> THEN existing_kvPairs
    ELSE LET namespace == entries[1][1]
             e1 == IF Has(existing_kvPairs, namespace) THEN existing_kvPairs
                   ELSE Put(existing_kvPairs, namespace, <<>>)
         IN  MergeLoop(Put(e1, namespace,
                           MergeKeyValues(Get(e1, namespace), entries[1][2])),
                       Tail(entries))

\* line 549: the namespaces whose annotation Append writes again
RewrittenEntries(existing_kvPairs) == existing_kvPairs

\* lines 549-559: delete and write the annotation of each namespace
RECURSIVE RewriteLoop(_, _)
RewriteLoop(s, entries) ==
    IF entries = <<>> THEN s
    ELSE LET namespace == entries[1][1]
             s1 == remove_map_annotations(s, namespace)
             kv_pairs_to_append == PairsOf(entries[1][2])
         IN  RewriteLoop(write_map_annotation(s1, namespace, kv_pairs_to_append),
                         Tail(entries))

\* lines 531-559: Append, key/value pairs with OMERO.mapr; counter_map_ann
\* grows by one for every value appended, which is the growth of the dict
AppendMapr(r, mapr_ns_list, new_KVpairs_dict) ==
    IF Len(new_KVpairs_dict) > 0 /\ r.raised = ""
    THEN IF ~(Len(mapr_ns_list) > 0) THEN Raise(r, "AssertionError")
         ELSE LET existing0 == get_existing_map_annotations(r.s)
                  s1 == Logged(r.s, "list", <<>>)
                  existing_kvPairs == MergeLoop(existing0, new_KVpairs_dict)
                  s2 == RewriteLoop(s1, RewrittenEntries(existing_kvPairs))
              IN  [r EXCEPT !.s = s2,
                            !.counter_map_ann =
                                @ + CountPairs(existing_kvPairs) - CountPairs(existing0)]
    ELSE r

\* lines 574-583 writing the new list, not the updated one
UpdatedListNewOnly(updated_list, new_KVpairs_list) == new_KVpairs_list

\* lines 574-577: append the new pairs that are not stored yet
UpdatedList(updated_list, new_KVpairs_list) == AddPairs(updated_list, new_KVpairs_list)

\* lines 563-585: Append, key/value pairs without OMERO.mapr
AppendFlat(r, mapr_ns_list, new_KVpairs_list) ==
    IF Len(new_KVpairs_list) > 0 /\ r.raised = ""
    THEN IF Len(mapr_ns_list) # 0 THEN Raise(r, "AssertionError")
         ELSE LET existing_kvPairs == get_existing_map_annotations(r.s)
                  s1 == Logged(r.s, "list", <<>>)
                  updated0 == IF Has(existing_kvPairs, DEFAULT_NAMESPACE)
                              THEN PairsOf(Get(existing_kvPairs, DEFAULT_NAMESPACE))
                              ELSE <<>>
                  updated_list == UpdatedList(updated0, new_KVpairs_list)
                  s2 == remove_map_annotations(s1, DEFAULT_NAMESPACE)
                  s3 == write_map_annotation(s2, DEFAULT_NAMESPACE, updated_list)
              IN  [r EXCEPT !.s = s3,
                            !.counter_map_ann = @ + Len(updated_list) - Len(updated0)]
    ELSE r

\* lines 418-588: the call on store s with the outputs of split_data
annotateObject(s, policy, mapr_ns_list, new) ==
    LET r0 == [s |-> s, counter_map_ann |-> 0, counter_tag_ann |-> 0, raised |-> ""]
    IN  CASE policy = "Overwrite" ->
                 Left(OverwriteMapr(
                          Propagate(OverwriteFlat(Propagate(OverwriteTags(r0, new.new_tags)),
                                                  mapr_ns_list, new.new_KVpairs_list)),
                          mapr_ns_list, new.new_KVpairs_dict))
          [] policy = "Append" ->
                 Left(AppendFlat(
                          Propagate(AppendMapr(Propagate(AppendTags(r0, new.new_tags)),
                                               mapr_ns_list, new.new_KVpairs_dict)),
                          mapr_ns_list, new.new_KVpairs_list))
          [] OTHER -> r0

\* ------------------------------------------------------- the model's data
KeyK == <<"k">>
KeyL == <<"l">>
KeyMarkerW == <<"_", "w">>
KeyMarkerX == <<"_", "x">>
ValV == <<"v">>
ValW == <<"w">>

\* Tabbles namespaces: a system one, one that OMERO.mapr knows, one that it
\* does not know, one without three letters in a row
NsSys == <<"_", "w", "s">>
NsBio == <<"0", "1", "_", "B", "i", "o">>
NsOrg == <<"o", "r", "g">>
NsNum == <<"1", "2">>

\* OMERO.mapr namespaces of the omero-web config
MaprBio == <<"B", "i", "o", "s">>
MaprBio2 == <<"x", "b", "i", "o">>

\* getMaprNamespaces: no OMERO.mapr, or two namespaces
Directories == {<<>>, <<MaprBio, MaprBio2>>}

\* the rows <<namespace, key, value>> the Tabbles query can return, in the
\* order of the result
AllRows ==
    << <<None, KeyK, ValV>>,
       <<None, KeyMarkerW, ValV>>,
       <<None, KeyMarkerW, ValW>>,
       <<None, KeyMarkerX, ValV>>,
       <<Some(NsBio), KeyK, ValV>>,
       <<Some(NsBio), KeyK, ValW>>,
       <<Some(NsBio), KeyL, ValV>>,
       <<Some(NsNum), KeyL, ValW>>,
       <<Some(NsOrg), KeyL, ValW>>,
       <<Some(NsSys), KeyK, ValV>>,
       <<Some(NsSys), KeyMarkerW, ValW>> >>

\* the rows of AllRows at the positions of S, in order
RECURSIVE PickRows(_, _)
PickRows(i, S) ==
    IF i > Len(AllRows) THEN <<>>
    ELSE (IF i \in S THEN <<AllRows[i]>> ELSE <<>>) \o PickRows(i + 1, S)

RowChoices == {S \in SUBSET (1..Len(AllRows)) : Cardinality(S) <= MaxRows}

\* line 309: drop_duplicates(subset=[1,2], keep="last") keeps, of the rows
\* with the same key and value, the last one
DropDuplicates(rows) ==
    SelectSeq([i \in 1..Len(rows) |->
                   IF \E j \in (i + 1)..Len(rows) :
                          rows[j][2] = rows[i][2] /\ rows[j][3] = rows[i][3]
                   THEN <<>> ELSE <<rows[i]>>],
              LAMBDA x : x # <<>>)

RECURSIVE Flatten(_)
Flatten(ss) == IF ss = <<>> THEN <<>> ELSE ss[1] \o Flatten(Tail(ss))

\* getData, lines 308-326, on the rows of the query result
getData(rows) == tabbles_data(<<>>, Flatten(DropDuplicates(rows)))

\* the stores the image can be in when the script starts
TagNames == {ValV, ValW}
StoreNamespaces == {DEFAULT_NAMESPACE, MaprBio, MaprBio2}
StorePairs == {<<KeyK, ValV>>, <<KeyK, ValW>>, <<KeyL, ValV>>}

SeqsUpTo(S, n) == UNION {[1..m -> S] : m \in 0..n}

InitAnnotations ==
    {[ns |-> n, value |-> v] : n \in StoreNamespaces, v \in SeqsUpTo(StorePairs, MaxInitPairs)}

\* ids in increasing order: one link per linked TagAnnotation
RECURSIVE Ascending(_, _, _)
Ascending(i, n, S) ==
    IF i > n THEN <<>> ELSE (IF i \in S THEN <<i>> ELSE <<>>) \o Ascending(i + 1, n, S)

InitStores ==
    {[mapAnns |-> a, tags |-> t[1], tagLinks |-> Ascending(1, Len(t[1]), t[2]),
      log |-> <<>>, fault |-> "", exception |-> ""] :
        a \in SeqsUpTo(InitAnnotations, MaxInitObjects),
        t \in {x \in SeqsUpTo(TagNames, MaxInitObjects) \X SUBSET (1..MaxInitObjects) :
                  x[2] \subseteq 1..Len(x[1])}}

\* ------------------------------------------------------ the state machine
VARIABLES
    mapr_ns_list,     \* getMaprNamespaces(): the OMERO.mapr config of the server
    tabbles_rows,     \* what the Tabbles query returns for the image's file;
                      \* the script only reads the Tabbles database
    store,            \* the server's annotations of the image; store.log is
                      \* the calls the last annotateObject made
    pre,              \* the store when the last annotateObject started
    script_params,    \* the script parameters of the last run
    data_dict,        \* the data_dict of the last annotateObject
    new,              \* split_data's three outputs in the last annotateObject
    counter_map_ann,  \* the counts the last annotateObject returned
    counter_tag_ann,
    raised,           \* "" or the exception that ended the last annotateObject
    repeated,         \* the last run repeated the run before it: same
                      \* parameters, same data_dict, and that run returned
    calls             \* annotateObject calls made so far

\* the loop of tabbles_annotation over the images of one run
VARIABLES
    images,           \* getImages(): for each image, in order, its
                      \* getImportedImageFilePaths()['client_paths'][0]
    tabbles,          \* the Tabbles database: the rows of the query result
                      \* for each file path
    last_path,        \* the local variables of tabbles_annotation
    data,
    number_of_images,
    sum_KVs,
    sum_tags,
    fetched           \* for each image processed: getData was called for it

loop_vars == <<images, tabbles, last_path, data, number_of_images, sum_KVs,
               sum_tags, fetched>>

vars == <<mapr_ns_list, tabbles_rows, store, pre, script_params, data_dict, new,
          counter_map_ann, counter_tag_ann, raised, repeated, calls, loop_vars>>

NoOutput == [new_tags |-> <<>>, new_KVpairs_list |-> <<>>, new_KVpairs_dict |-> <<>>]

Policies == {"Overwrite", "Append"}

\* lines 615-619: the local variables before the loop; data is bound by the
\* first image, whose path is not ""
BeforeLoop ==
    /\ last_path = <<>>
    /\ data = <<>>
    /\ number_of_images = 0
    /\ sum_KVs = 0
    /\ sum_tags = 0
    /\ fetched = <<>>

\* the script starts on an image whose store is one of stores
Start(stores) ==
    /\ images = <<>>
    /\ tabbles = <<>>
    /\ BeforeLoop
    /\ mapr_ns_list \in Directories
    /\ tabbles_rows \in {PickRows(1, S) : S \in RowChoices}
    /\ store \in stores
    /\ pre = store
    /\ script_params = [What_to_do_with_existing_Annotations |-> "", 
                        Process_single_tags |-> TRUE]
    /\ data_dict = <<>>
    /\ new = NoOutput
    /\ counter_map_ann = 0
    /\ counter_tag_ann = 0
    /\ raised = ""
    /\ repeated = FALSE
    /\ calls = 0

\* the server carries out every delete
Init == Start({x \in InitStores : Len(x.mapAnns) + Len(x.tags) <= MaxInitObjects})

\* the server carries out no delete of an annotation or a link of the image,
\* which has one
InitFail ==
    Start({[x EXCEPT !.fault = f] :
               x \in {y \in InitStores : Len(y.mapAnns) + Len(y.tags) = MaxInitObjects},
               f \in Faults})

\* what a run records besides its effect
Recorded(params, passed) ==
    /\ calls < MaxCalls
    /\ calls' = calls + 1
    /\ script_params' = params
    /\ data_dict' = passed
    /\ pre' = [store EXCEPT !.log = <<>>]
    /\ repeated' = (calls > 0 /\ raised = "" /\ params = script_params /\ passed = data_dict)
    /\ UNCHANGED <<mapr_ns_list, tabbles_rows, loop_vars>>

\* tabbles_annotation on the image, lines 627-634: getData, then
\* annotateObject, which returns its two counts
Annotate(policy, single_tags, rows) ==
    LET params == [What_to_do_with_existing_Annotations |-> policy,
                   Process_single_tags |-> single_tags]
        passed == getData(rows)
        out == split_data(single_tags, mapr_ns_list, passed)
        r == annotateObject([store EXCEPT !.log = <<>>], policy, mapr_ns_list, out)
    IN  /\ ~split_raises(mapr_ns_list, passed)
        /\ Recorded(params, passed)
        /\ new' = out
        /\ store' = r.s
        /\ counter_map_ann' = r.counter_map_ann
        /\ counter_tag_ann' = r.counter_tag_ann
        /\ raised' = r.raised

\* the same, when split_data raises at line 422: nothing was sent to the
\* server and nothing is returned
AnnotateRaises(policy, single_tags, rows) ==
    LET params == [What_to_do_with_existing_Annotations |-> policy,
                   Process_single_tags |-> single_tags]
        passed == getData(rows)
    IN  /\ split_raises(mapr_ns_list, passed)
        /\ Recorded(params, passed)
        /\ new' = NoOutput
        /\ store' = [store EXCEPT !.log = <<>>]
        /\ counter_map_ann' = 0
        /\ counter_tag_ann' = 0
        /\ raised' = IF FlatBranch(mapr_ns_list) THEN "AssertionError"
                     ELSE "AttributeError"

Next ==
    \E policy \in Policies, single_tags \in BOOLEAN :
        \/ Annotate(policy, single_tags, tabbles_rows)
        \/ AnnotateRaises(policy, single_tags, tabbles_rows)

Spec == Init /\ [][Next]_vars

\* the runs on a server that does not carry out the deletes
SpecFail == InitFail /\ [][Next]_vars

\* ------------------------------------------- the loop of tabbles_annotation
\* client paths as OMERO stores them
PathA == <<"C", ";", "/", "a">>
PathB == <<"C", ";", "/", "b">>
PathA2 == <<"C", ":", "/", "a">>
ClientPaths == {PathA, PathB, PathA2}

\* getData, lines 272-273: raw_path.replace(";", ":").replace("/", "\\")
FinalPath(raw_path) ==
    [i \in 1..Len(raw_path) |->
        CASE raw_path[i] = ";" -> ":"
          [] raw_path[i] = "/" -> "\\"
          [] OTHER -> raw_path[i]]

\* the rows that Tabbles can hold for a file: a single tag, a pair under an
\* OMERO.mapr namespace, a pair under a namespace without three letters
FileRows == {PickRows(1, {2}), PickRows(1, {5}), PickRows(1, {8})}

\* the MapAnnotations an image of the run can have when its turn comes
ImageAnnotations ==
    {<<>>, <<[ns |-> DEFAULT_NAMESPACE, value |-> <<<<KeyK, ValV>>>>]>>}

\* line 625 comparing with the initial value only: the first image alone differs
PathChangedOnce(import_path, previous) == previous = <<>>

\* line 625: the import path differs from the one of the image before
PathChanged(import_path, previous) == import_path # previous

\* lines 612-619 of a run of the script on up to MaxImages images
InitRun ==
    /\ mapr_ns_list \in Directories
    /\ tabbles_rows = <<>>
    /\ images \in SeqsUpTo(ClientPaths, MaxImages)
    /\ tabbles \in [{FinalPath(x) : x \in ClientPaths} -> FileRows]
    /\ store = [mapAnns |-> <<>>, tags |-> <<>>, tagLinks |-> <<>>, log |-> <<>>,
                fault |-> "", exception |-> ""]
    /\ pre = store
    /\ script_params \in [What_to_do_with_existing_Annotations : Policies,
                           Process_single_tags : BOOLEAN]
    /\ data_dict = <<>>
    /\ new = NoOutput
    /\ counter_map_ann = 0
    /\ counter_tag_ann = 0
    /\ raised = ""
    /\ repeated = FALSE
    /\ calls = 0
    /\ BeforeLoop

\* lines 620-626: there is a next image, data is bound to hierarchy, and
\* whether getData was called for it is recorded
LoopHead(fetch, hierarchy) ==
    /\ calls < Len(images)
    /\ raised = ""
    /\ calls' = calls + 1
    /\ data' = hierarchy
    /\ data_dict' = hierarchy
    /\ fetched' = Append(fetched, fetch)
    /\ UNCHANGED <<mapr_ns_list, tabbles_rows, images, tabbles, script_params, repeated>>

\* lines 620-641: one iteration of the loop, on an image with the
\* MapAnnotations annotations and no tag; the TagAnnotations of the server
\* are those the images before left
NextImage(annotations) ==
    LET import_path == images[calls + 1]
        fetch == PathChanged(import_path, last_path)
        hierarchy == IF fetch THEN getData(tabbles[FinalPath(import_path)]) ELSE data
        image == [store EXCEPT !.mapAnns = annotations, !.tagLinks = <<>>,
                               !.log = <<>>]
        out == split_data(script_params.Process_single_tags, mapr_ns_list, hierarchy)
        r == annotateObject(image, script_params.What_to_do_with_existing_Annotations,
                            mapr_ns_list, out)
        kvs_annotated == r.counter_map_ann
        tags_annotated == r.counter_tag_ann
    IN  /\ LoopHead(fetch, hierarchy)
        /\ ~split_raises(mapr_ns_list, hierarchy)
        /\ pre' = image
        /\ new' = out
        /\ store' = r.s
        /\ counter_map_ann' = kvs_annotated
        /\ counter_tag_ann' = tags_annotated
        /\ raised' = r.raised
        /\ sum_KVs' = sum_KVs + kvs_annotated
        /\ sum_tags' = sum_tags + tags_annotated
        /\ last_path' = import_path
        /\ number_of_images' = IF kvs_annotated # 0 \/ tags_annotated # 0
                               THEN number_of_images + 1 ELSE number_of_images

\* the same, when split_data raises in annotateObject: the exception ends
\* the loop
NextImageRaises(annotations) ==
    LET import_path == images[calls + 1]
        fetch == PathChanged(import_path, last_path)
        hierarchy == IF fetch THEN getData(tabbles[FinalPath(import_path)]) ELSE data
        image == [store EXCEPT !.mapAnns = annotations, !.tagLinks = <<>>,
                               !.log = <<>>]
    IN  /\ LoopHead(fetch, hierarchy)
        /\ split_raises(mapr_ns_list, hierarchy)
        /\ pre' = image
        /\ new' = NoOutput
        /\ store' = image
        /\ counter_map_ann' = 0
        /\ counter_tag_ann' = 0
        /\ raised' = IF FlatBranch(mapr_ns_list) THEN "AssertionError"
                     ELSE "AttributeError"
        /\ UNCHANGED <<sum_KVs, sum_tags, last_path, number_of_images>>

NextRun ==
    \E annotations \in ImageAnnotations :
        \/ NextImage(annotations)
        \/ NextImageRaises(annotations)

SpecRun == InitRun /\ [][NextRun]_vars

\* ------------------------------------------------------------- vocabulary
Policy == script_params.What_to_do_with_existing_Annotations

\* the last annotateObject returned its counts
Returned == calls > 0 /\ raised = ""

\* the names of the tags linked to the image
LinkedNames(s) == Range(get_linked_tag_annotations(s))

\* the <<namespace, key, value>> triples stored on the image
Triples(s) ==
    UNION {{<<s.mapAnns[i].ns, p[1], p[2]>> : p \in Range(s.mapAnns[i].value)} :
               i \in 1..Len(s.mapAnns)}

\* the MapAnnotations of the image under one namespace
AnnotationsUnder(s, namespace) == SelectSeq(s.mapAnns, LAMBDA ann : ann.ns = namespace)

\* the pairs stored on the image under one namespace, annotation after annotation
RECURSIVE PairsUnderLoop(_)
PairsUnderLoop(annotations) ==
    IF annotations = <<>> THEN <<>>
    ELSE annotations[1].value \o PairsUnderLoop(Tail(annotations))

PairsUnder(s, namespace) == PairsUnderLoop(AnnotationsUnder(s, namespace))

\* the calls of the last annotateObject whose op is in ops
LogOf(ops) == SelectSeq(store.log, LAMBDA e : e[1] \in ops)

\* ----------------------------------------------------------------- claims
\* C1: a second Overwrite run with the parameters and the data of the
\* Overwrite run before it returns the counts (0, 0).
C1_OverwriteTwiceCountsZero ==
    (Returned /\ repeated /\ Policy = "Overwrite")
        => (counter_map_ann = 0 /\ counter_tag_ann = 0)

\* C2: an Append run removes nothing: the tag names linked to the image and
\* the <<namespace, key, value>> triples stored on it after the call include
\* those before the call.
C2_AppendMonotonic ==
    (calls > 0 /\ Policy = "Append")
        => /\ LinkedNames(pre) \subseteq LinkedNames(store)
           /\ Triples(pre) \subseteq Triples(store)

\* an Append run that returned, on an image that had a linked tag and stored
\* pairs: it linked one more tag and deleted and wrote the pairs again
C2_Witness ==
    /\ Returned /\ Policy = "Append"
    /\ LinkedNames(pre) # {} /\ LinkedNames(pre) # LinkedNames(store)
    /\ Triples(pre) # {} /\ Len(LogOf({"delete"})) > 0

\* C3: split_data leaves new_KVpairs_dict empty when getMaprNamespaces() is
\* empty and new_KVpairs_list empty when it is not: never both non-empty.
C3_ModeExclusive ==
    /\ Len(mapr_ns_list) = 0 => new.new_KVpairs_dict = <<>>
    /\ Len(mapr_ns_list) > 0 => new.new_KVpairs_list = <<>>
    /\ ~(new.new_KVpairs_dict # <<>> /\ new.new_KVpairs_list # <<>>)

\* split_data filled the dict from two Tabbles namespaces with OMERO.mapr
C3_Witness ==
    /\ Returned /\ Len(mapr_ns_list) > 0
    /\ Len(new.new_KVpairs_dict) = 2 /\ new.new_KVpairs_list = <<>>

\* split_data filled the list without OMERO.mapr
C3_WitnessFlat ==
    /\ Returned /\ Len(mapr_ns_list) = 0
    /\ Len(new.new_KVpairs_list) = 2 /\ new.new_KVpairs_dict = <<>>

\* no element occurs twice
NoDuplicates(list) == \A i, j \in 1..Len(list) : list[i] = list[j] => i = j

\* the namespaces under which the image had MapAnnotations before the call
NamespacesBefore == {pre.mapAnns[i].ns : i \in 1..Len(pre.mapAnns)}

\* the links of the image to tags of one name
LinksNamed(s, name) == SelectSeq(get_linked_tag_annotations(s), LAMBDA t : t = name)

\* every MapAnnotation the image had before the call held at least one pair
\* and no pair twice
PlainBefore ==
    \A i \in 1..Len(pre.mapAnns) :
        pre.mapAnns[i].value # <<>> /\ NoDuplicates(pre.mapAnns[i].value)

\* C4: Overwrite with OMERO.mapr: under every namespace of new_KVpairs_dict
\* the image carries exactly the new pairs of that namespace, and none of
\* the pairs it had there before that the new data lacks.
C4_OverwriteSupersedes ==
    (Returned /\ Policy = "Overwrite" /\ Len(mapr_ns_list) > 0)
        => \A n \in Keys(new.new_KVpairs_dict) :
               /\ PairsUnder(store, n) = PairsOf(Get(new.new_KVpairs_dict, n))
               /\ Len(AnnotationsUnder(store, n)) = 1
               /\ \A p \in Range(PairsUnder(pre, n)) :
                      p \in Range(PairsUnder(store, n))
                          => p \in Range(PairsOf(Get(new.new_KVpairs_dict, n)))

\* an Overwrite that returned, for a namespace of the new data under which
\* the image had a pair that the new data lacks
C4_Witness ==
    /\ Returned /\ Policy = "Overwrite" /\ Len(mapr_ns_list) > 0
    /\ \E n \in Keys(new.new_KVpairs_dict) :
           \E p \in Range(PairsUnder(pre, n)) :
               p \notin Range(PairsOf(Get(new.new_KVpairs_dict, n)))

\* C5: Overwrite with OMERO.mapr: a namespace of getMaprNamespaces() under
\* which the image had an annotation and which new_KVpairs_dict lacks has
\* no annotation left, also when new_KVpairs_dict is empty.
C5_StaleNamespacesRemoved ==
    (Returned /\ Policy = "Overwrite" /\ Len(mapr_ns_list) > 0 /\ PlainBefore)
        => \A n \in NamespacesBefore :
               (InList(n, mapr_ns_list) /\ ~Has(new.new_KVpairs_dict, n))
                   => AnnotationsUnder(store, n) = <<>>

\* C6: Overwrite without OMERO.mapr and a non-empty new_KVpairs_list: the
\* image carries one annotation of the default namespace, the new pairs
\* first, then the pairs it had, every pair once (for an image whose pairs
\* of the default namespace were stored once each before the call).
C6_FlatOverwriteUnion ==
    (/\ Returned /\ Policy = "Overwrite" /\ Len(new.new_KVpairs_list) > 0
     /\ NoDuplicates(PairsUnder(pre, DEFAULT_NAMESPACE)))
        => LET stored == PairsUnder(store, DEFAULT_NAMESPACE)
           IN  /\ Len(AnnotationsUnder(store, DEFAULT_NAMESPACE)) = 1
               /\ Range(stored) = Range(new.new_KVpairs_list)
                                      \cup Range(PairsUnder(pre, DEFAULT_NAMESPACE))
               /\ SubSeq(stored, 1, Len(new.new_KVpairs_list)) = new.new_KVpairs_list
               /\ NoDuplicates(stored)

\* C7: Append: every name of new_tags that was not linked gets one link, to
\* the TagAnnotation of that name if the server has one and to a new one
\* otherwise; the links the image had stay; counter_tag_ann is the number
\* of names of new_tags that were not linked.
C7_AppendLinksMissingTags ==
    (Returned /\ Policy = "Append")
        => LET missing == Range(new.new_tags) \ LinkedNames(pre)
           IN  /\ counter_tag_ann = Cardinality(missing)
               /\ \A t \in missing : Len(LinksNamed(store, t)) = 1
               /\ \A t \in LinkedNames(pre) : LinksNamed(store, t) = LinksNamed(pre, t)
               /\ SubSeq(store.tagLinks, 1, Len(pre.tagLinks)) = pre.tagLinks
               /\ Len(store.tags) - Len(pre.tags)
                      = Cardinality(missing \ Range(pre.tags))

\* C8: Overwrite with a non-empty new_tags: every link of the image to a tag
\* is removed first, the names linked afterwards are those of new_tags, and
\* counter_tag_ann is the links made minus the links removed; with an empty
\* new_tags no link is removed or made.
C8_OverwriteReplacesTags ==
    (Returned /\ Policy = "Overwrite")
        => LET tagCalls == LogOf({"unlink", "create", "link"})
               made == LogOf({"create", "link"})
           IN  IF Len(new.new_tags) > 0
               THEN /\ LinkedNames(store) = Range(new.new_tags)
                    /\ tagCalls[1][1] = "unlink"
                    /\ Len(store.tagLinks) = Len(made)
                    /\ counter_tag_ann = Len(made) - Len(pre.tagLinks)
               ELSE /\ tagCalls = <<>>
                    /\ store.tagLinks = pre.tagLinks
                    /\ counter_tag_ann = 0

\* an Overwrite with new tags on an image linked to a tag that is not among them
C8_Witness ==
    /\ Returned /\ Policy = "Overwrite" /\ Len(new.new_tags) > 0
    /\ \E t \in LinkedNames(pre) : t \notin Range(new.new_tags)

\* C9: Append with OMERO.mapr: every delete and every write of a
\* MapAnnotation is for a namespace of new_KVpairs_dict.
C9_AppendTouchesOnlyNewNamespaces ==
    (Returned /\ Policy = "Append" /\ Len(mapr_ns_list) > 0 /\ PlainBefore)
        => \A e \in Range(LogOf({"delete", "write"})) : Has(new.new_KVpairs_dict, e[2])

RECURSIVE SumPairsBefore(_)
SumPairsBefore(S) ==
    IF S = {} THEN 0
    ELSE LET n == CHOOSE x \in S : TRUE
         IN  Len(PairsUnder(pre, n)) + SumPairsBefore(S \ {n})

\* C10: Overwrite with OMERO.mapr: counter_map_ann is the number of pairs
\* written for the namespaces of new_KVpairs_dict minus the number of pairs
\* the image had under the namespaces that were replaced or deleted.
C10_OverwriteMaprCount ==
    (Returned /\ Policy = "Overwrite" /\ Len(mapr_ns_list) > 0 /\ PlainBefore)
        => counter_map_ann
               = CountPairs(new.new_KVpairs_dict)
                 - SumPairsBefore({e[2] : e \in Range(LogOf({"delete"}))})

\* the non-None namespaces of the last data_dict
RawNamespaces == {data_dict[i][1][1] : i \in {j \in 1..Len(data_dict) : data_dict[j][1] # None}}

\* the first namespace of the list, in its order, that contains the letters
\* whatever the case; "" when none does
RECURSIVE FirstMatch(_, _)
FirstMatch(letters, list) ==
    IF list = <<>> THEN <<>>
    ELSE IF IsSubstring(Lower(letters), Lower(list[1])) THEN list[1]
         ELSE FirstMatch(letters, Tail(list))

\* the namespace a Tabbles namespace is to resolve to: the default one when
\* it starts with "_", else the first match of its run of letters
FirstResolution(orig_ns) ==
    IF StartsWithMarker(orig_ns) THEN DEFAULT_NAMESPACE
    ELSE FirstMatch(LetterRun(orig_ns), mapr_ns_list)

\* C11: with OMERO.mapr, the namespaces of new_KVpairs_dict are the default
\* namespace for a Tabbles namespace starting with "_", and for any other
\* the first namespace of getMaprNamespaces(), in its order, that contains
\* its run of letters whatever the case, "" when none does.
C11_FirstMatchWins ==
    (Returned /\ Len(mapr_ns_list) > 0)
        => Keys(new.new_KVpairs_dict) = {FirstResolution(n) : n \in RawNamespaces}

\* C12: with OMERO.mapr, under either policy: no MapAnnotation is written
\* with the namespace "", and the image carries none afterwards unless it
\* had one before.
C12_UnmappableDropped ==
    (Returned /\ Len(mapr_ns_list) > 0)
        => /\ \A e \in Range(LogOf({"write"})) : e[2] # <<>>
           /\ AnnotationsUnder(pre, <<>>) = <<>> => AnnotationsUnder(store, <<>>) = <<>>

\* the [key, value] pairs of the None namespace of the last data_dict
NonePairs == IF Has(data_dict, None) THEN PairsOf(Get(data_dict, None)) ELSE <<>>

\* those of them whose key starts with "_"
MarkedPairs == SelectSeq(NonePairs, LAMBDA p : StartsWithMarker(p[1]))

\* the [key, value] pairs of new_KVpairs_dict, whatever the namespace
DictPairs == UNION {Range(PairsOf(new.new_KVpairs_dict[i][2])) : i \in 1..Len(new.new_KVpairs_dict)}

\* C13: new_tags is the values under the keys starting with "_" of the None
\* namespace when Process_single_tags is set and empty when it is not; no
\* pair of the None namespace is in new_KVpairs_list or new_KVpairs_dict.
C13_TagsFromNoneBucket ==
    Returned
        => /\ new.new_tags = IF script_params.Process_single_tags
                             THEN [i \in 1..Len(MarkedPairs) |-> MarkedPairs[i][2]]
                             ELSE <<>>
           /\ Range(new.new_KVpairs_list) \cap Range(NonePairs) = {}
           /\ DictPairs \cap Range(NonePairs) = {}

\* split_data made a tag from the None namespace, which also has a key
\* that does not start with "_"
C13_Witness ==
    /\ Returned /\ script_params.Process_single_tags
    /\ new.new_tags # <<>>
    /\ \E p \in Range(NonePairs) : ~StartsWithMarker(p[1])

\* C14: when a delete of the call was not carried out by the server (the
\* Delete2 of remove_map_annotations or the deleteObject of a link in
\* remove_tag_annotations), annotateObject still returns its counts.
C14_FailedDeleteContinues ==
    (calls > 0 /\ LogOf({"failed"}) # <<>>) => raised = ""

\* the calls that create an object on the server and end with
\* image.linkAnnotation, after which the next image.listAnnotations()
\* queries the server again
Creations == {"write", "create", "link"}

\* C15: within one annotateObject call no read of the annotations of the
\* image (image.listAnnotations) comes after a MapAnnotation, a
\* TagAnnotation or a link that the call created.
C15_ReadsBeforeMutations ==
    Returned
        => \A i, j \in 1..Len(store.log) :
               (store.log[i][1] \in Creations /\ store.log[j][1] = "list") => j < i

\* the hierarchy that Tabbles holds for the file of the i-th image
HierarchyOf(i) == getData(tabbles[FinalPath(images[i])])

\* C16: in the loop of tabbles_annotation getData is called for an image
\* exactly when it is the first one or its path differs from the path of
\* the image before it; data holds the hierarchy of the last image only;
\* and the data_dict passed to annotateObject is the hierarchy of the path
\* of the image it is called for.
C16_OneEntryCache ==
    /\ Len(fetched) = calls
    /\ \A i \in 1..Len(fetched) : fetched[i] <=> (i = 1 \/ images[i] # images[i - 1])
    /\ calls > 0 => (data = HierarchyOf(calls) /\ data_dict = HierarchyOf(calls))
    /\ (calls > 0 /\ raised = "") => last_path = images[calls]

\* three images were annotated: the second has the path of the first and
\* got its hierarchy without a query, the third has another path and
\* another hierarchy
C16_Witness ==
    /\ calls = 3 /\ raised = ""
    /\ fetched = <<TRUE, FALSE, TRUE>>
    /\ HierarchyOf(3) # HierarchyOf(2)

====
